---------------------------- MODULE Spec2Model ----------------------------
(***************************************************************************)
(* The two scripts of stock_market_analysis, apple_stock_analysis.py and   *)
(* apple_stock_data.py: fetch daily bars, add a simple moving average of   *)
(* the closing price, write a CSV file, render a chart.                    *)
(*                                                                         *)
(* A pandas DataFrame is a record                                          *)
(*   [index_name, index, columns, values]                                  *)
(* whose columns are kept in order and whose values map a column name to   *)
(* the sequence of its cells.  A cell is a float: NaN, or the exact        *)
(* rational num/den (prices are whole numbers, a mean is sum/nobs).        *)
(***************************************************************************)
EXTENDS Integers, Sequences, FiniteSets, TLC

VARIABLES
    script,        \* which of the two scripts runs
    pc,            \* position of the run: main, fetched, transformed, written, exit
                   \* (call, returned, raised for a direct call of calculate_sma)
    sma_window,    \* the window size handed to calculate_sma
    data,          \* the DataFrame object main holds (stock_data / data)
    returned,      \* the value the last call of calculate_sma returned
    before,        \* the DataFrame as it was when calculate_sma was called
    bars,          \* what the download delivered (the price bars, oldest first)
    fetch_outcome, \* none, raise (download raised), empty, ok
    began,         \* the steps begun, in order
    completed,     \* the steps that completed without an error, in order
    stdout,        \* the lines printed on standard output
    stderr,        \* the tracebacks of uncaught exceptions
    exit_code,     \* the exit status of the process
    csv_file,      \* apple_stock_data.csv: times opened for writing, header, rows
    png_file,      \* the chart image: times saved, the plotted series
    final_data,    \* apple_stock_data.py: the projected frame main saves and plots
    calls          \* the number of calls of calculate_sma made so far

vars == <<script, pc, sma_window, data, returned, before, bars, fetch_outcome, final_data, calls,
          began, completed, stdout, stderr, exit_code, csv_file, png_file>>

Scripts == {"analysis", "data"}

\* ------------------------------------------------------------------ bounds

\* The longest series a download (or a direct caller) delivers.
MaxBars == 10

\* The number of times a direct caller calls calculate_sma on the same frame.
MaxCalls == 2

\* Closing prices a bar may carry.
Prices == {1, 3}

\* Window sizes a direct caller of calculate_sma tries.
SmaWindows == {-1, 0, 1, 2, 3, 10}

\* Window sizes main is configured with when the configuration is varied.
CfgWindows == {-1, 0, 2, 5, 10}

\* ------------------------------------------------------------- configuration

ANALYSIS_SMA_WINDOW == 10

DATA_SMA_WINDOW == 10

ConfiguredWindow(s) == IF s = "analysis" THEN ANALYSIS_SMA_WINDOW ELSE DATA_SMA_WINDOW

\* ------------------------------------------------------------------ cells

\* t is the dtype of the cell's column: "f" float64, "i" int64, "d" datetime64.
NaN == [t |-> "f", nan |-> TRUE, num |-> 0, den |-> 1]

Num(n) == [t |-> "f", nan |-> FALSE, num |-> n, den |-> 1]

IntCell(n) == [t |-> "i", nan |-> FALSE, num |-> n, den |-> 1]

Date(n) == [t |-> "d", nan |-> FALSE, num |-> n, den |-> 1]

Max(a, b) == IF a >= b THEN a ELSE b

Range(s) == {s[i] : i \in DOMAIN s}

\* --------------------------------------------------------------- DataFrame

ColSet(df) == Range(df.columns)

HasCol(df, c) == c \in ColSet(df)

NRows(df) == Len(df.index)

\* df[c] = s : replaces the column where it is, or appends a new last column.
SetItem(df, c, s) ==
    [df EXCEPT
        !.columns = IF HasCol(df, c) THEN @ ELSE Append(@, c),
        !.values  = [x \in ColSet(df) \cup {c} |-> IF x = c THEN s ELSE df.values[x]]]

\* df[[c1, ..., ck]] : a new frame of the named columns, in the order named.
Project(df, cs) ==
    [df EXCEPT
        !.columns = cs,
        !.values  = [x \in Range(cs) |-> df.values[x]]]

MissingCols(df, cs) == {c \in Range(cs) : ~HasCol(df, c)}

\* df.reset_index(drop=True): the index is thrown away instead of kept.
ResetIndex_drop(df) ==
    [df EXCEPT !.index_name = "", !.index = [i \in 1..NRows(df) |-> i - 1]]

\* df.reset_index() : the index becomes the first column, under its name;
\* the new index is 0 .. n-1 and has no name.
ResetIndex(df) ==
    LET name == IF df.index_name = "" THEN "index" ELSE df.index_name
    IN  [index_name |-> "",
         index      |-> [i \in 1..NRows(df) |-> i - 1],
         columns    |-> <<name>> \o df.columns,
         values     |-> [x \in ColSet(df) \cup {name} |->
                            IF x = name THEN [i \in 1..NRows(df) |-> Date(df.index[i])]
                            ELSE df.values[x]]]

\* ------------------------------------------------- Series.rolling(w).mean()

\* The fixed window ending at position i covers positions WinStart(i, w)+1 .. i.
WinStart(i, w) == Max(i - w, 0)

\* A NaN observation is skipped: it changes neither the sum nor the count.
add_mean(st, v) ==
    IF v.nan THEN st ELSE [sum_x |-> st.sum_x + v.num, nobs |-> st.nobs + 1]

remove_mean(st, v) ==
    IF v.nan THEN st ELSE [sum_x |-> st.sum_x - v.num, nobs |-> st.nobs - 1]

RECURSIVE AddRange(_, _, _, _)
AddRange(st, xs, lo, hi) ==
    IF lo > hi THEN st ELSE AddRange(add_mean(st, xs[lo]), xs, lo + 1, hi)

RECURSIVE RemoveRange(_, _, _, _)
RemoveRange(st, xs, lo, hi) ==
    IF lo > hi THEN st ELSE RemoveRange(remove_mean(st, xs[lo]), xs, lo + 1, hi)

calc_mean(minp, st) ==
    IF st.nobs >= minp /\ st.nobs > 0
    THEN [t |-> "f", nan |-> FALSE, num |-> st.sum_x, den |-> st.nobs]
    ELSE NaN

\* The sliding computation with the removal of the values that left the
\* window forgotten: the running sum only grows.
RECURSIVE roll_mean_noremove(_, _, _, _, _, _)
roll_mean_noremove(xs, w, minp, i, st, out) ==
    IF i > Len(xs) THEN out
    ELSE LET st1 == IF i = 1
                    THEN AddRange(st, xs, WinStart(1, w) + 1, 1)
                    ELSE AddRange(st, xs, i, i)
         IN  roll_mean_noremove(xs, w, minp, i + 1, st1, Append(out, calc_mean(minp, st1)))

\* The sliding computation: at each position the values that left the window
\* are removed from the running sum and the one that entered is added.
RECURSIVE roll_mean(_, _, _, _, _, _)
roll_mean(xs, w, minp, i, st, out) ==
    IF i > Len(xs) THEN out
    ELSE LET st1 == IF i = 1
                    THEN AddRange(st, xs, WinStart(1, w) + 1, 1)
                    ELSE AddRange(
                            RemoveRange(st, xs, WinStart(i - 1, w) + 1, WinStart(i, w)),
                            xs, i, i)
         IN  roll_mean(xs, w, minp, i + 1, st1, Append(out, calc_mean(minp, st1)))

\* rolling(window=w) with min_periods left at its default, the window size.
RollingMean(xs, w) == roll_mean(xs, w, w, 1, [sum_x |-> 0, nobs |-> 0], <<>>)

\* rolling() rejects a negative window; 0 is accepted.
RollingRaises(w) == w < 0

\* --------------------------------------------------------------- yf.download

NoFrame == [index_name |-> "", index |-> <<>>, columns |-> <<>>, values |-> <<>>]

\* One daily bar with closing price p on day d.
MkBar(d, p) ==
    [Date |-> d, Open |-> p, High |-> p + 1, Low |-> p - 1, Close |-> p, Volume |-> p]

\* The series a download may deliver: n bars, one per day, dates increasing.
BarSeqs(n) == {[i \in 1..n |-> MkBar(i, ps[i])] : ps \in [1..n -> Prices]}

\* The DataFrame yf.download returns for the bars bs: indexed by Date.
Download(bs) ==
    [index_name |-> "Date",
     index      |-> [i \in 1..Len(bs) |-> bs[i].Date],
     columns    |-> <<"Open", "High", "Low", "Close", "Volume">>,
     values     |-> [x \in {"Open", "High", "Low", "Close", "Volume"} |->
                        [i \in 1..Len(bs) |->
                            CASE x = "Open"   -> Num(bs[i].Open)
                              [] x = "High"   -> Num(bs[i].High)
                              [] x = "Low"    -> Num(bs[i].Low)
                              [] x = "Close"  -> Num(bs[i].Close)
                              [] x = "Volume" -> IntCell(bs[i].Volume)]]]

\* data.empty
Empty(df) == NRows(df) = 0 \/ Len(df.columns) = 0

\* ------------------------------------------------- the scripts' functions
\* Each function is an operator giving the outcome of one call:
\*   exc      the exception that leaves the call ("" when it returns),
\*   printed  the lines it printed,
\*   frame    the DataFrame object passed in, as the call left it,
\*   value    the returned value.

Returns(printed, frame, value) ==
    [exc |-> "", printed |-> printed, frame |-> frame, value |-> value]

Raises(exc, printed, frame) ==
    [exc |-> exc, printed |-> printed, frame |-> frame, value |-> NoFrame]

\* f'{window}_SMA'
SmaName(window) == ToString(window) \o "_SMA"

\* fetch_stock_data without the check of data.empty.
fetch_stock_data_nocheck(s, dl) ==
    IF s = "analysis"
    THEN LET p == <<"Fetching 365 days of historical data for AAPL...">>
         IN  IF dl.raised THEN Raises("DownloadError", p, NoFrame)
             ELSE Returns(Append(p, "Data fetched successfully!"), NoFrame, dl.frame)
    ELSE IF dl.raised
         THEN Raises("SystemExit", <<"Error fetching data for AAPL: DownloadError">>, NoFrame)
         ELSE Returns(<<>>, NoFrame, dl.frame)

\* dl is the outcome of yf.download: [raised, frame].
fetch_stock_data(s, dl) ==
    IF s = "analysis"
    THEN LET p == <<"Fetching 365 days of historical data for AAPL...">>
         IN  IF dl.raised THEN Raises("DownloadError", p, NoFrame)
             ELSE IF Empty(dl.frame)
             THEN Raises("ValueError: No data found for ticker AAPL", p, NoFrame)
             ELSE Returns(Append(p, "Data fetched successfully!"), NoFrame, dl.frame)
    ELSE IF dl.raised
         THEN Raises("SystemExit", <<"Error fetching data for AAPL: DownloadError">>, NoFrame)
         ELSE IF Empty(dl.frame)
         THEN Raises("SystemExit",
                     <<"No data found for ticker AAPL in the given date range.">>, NoFrame)
         ELSE Returns(<<>>, NoFrame, dl.frame)

\* calculate_sma working on a copy: the caller's object is left as it was.
calculate_sma_copy(s, df, window) ==
    IF ~HasCol(df, "Close") THEN Raises("KeyError: Close", <<>>, df)
    ELSE IF RollingRaises(window)
    THEN Raises("ValueError: window must be an integer 0 or greater", <<>>, df)
    ELSE Returns(<<>>, df,
                 SetItem(df, SmaName(window), RollingMean(df.values["Close"], window)))

\* calculate_sma dropping the rows without a full window (dropna).
calculate_sma_dropna(s, df, window) ==
    IF ~HasCol(df, "Close") THEN Raises("KeyError: Close", <<>>, df)
    ELSE IF RollingRaises(window)
    THEN Raises("ValueError: window must be an integer 0 or greater", <<>>, df)
    ELSE LET sma  == RollingMean(df.values["Close"], window)
             keep == SelectSeq([i \in 1..NRows(df) |-> i], LAMBDA i : ~sma[i].nan)
             out  == [index_name |-> df.index_name,
                      index      |-> [k \in 1..Len(keep) |-> df.index[keep[k]]],
                      columns    |-> Append(df.columns, SmaName(window)),
                      values     |-> [x \in ColSet(df) \cup {SmaName(window)} |->
                                        [k \in 1..Len(keep) |->
                                            IF x = SmaName(window) THEN sma[keep[k]]
                                            ELSE df.values[x][keep[k]]]]]
         IN  Returns(<<>>, out, out)

calculate_sma(s, df, window) ==
    LET p == IF s = "analysis"
             THEN <<"Calculating " \o ToString(window) \o "-day SMA...">>
             ELSE <<>>
    IN  IF ~HasCol(df, "Close") THEN Raises("KeyError: Close", p, df)
        ELSE IF RollingRaises(window)
        THEN Raises("ValueError: window must be an integer 0 or greater", p, df)
        ELSE LET out == SetItem(df, SmaName(window), RollingMean(df.values["Close"], window))
             IN  Returns(p, out, out)

\* ------------------------------------------------------------- DataFrame.to_csv

\* The text of a float64 with at most one decimal place (num/den with den
\* dividing 10 * num, as are the prices and the means over 1, 2, 5 or 10 of them).
FormatFloat(c) ==
    LET q == (c.num * 10) \div c.den
    IN  ToString(q \div 10) \o "." \o ToString(q % 10)

\* A missing value is written as the empty string.
FormatCell(c) ==
    IF c.nan THEN ""
    ELSE CASE c.t = "f" -> FormatFloat(c)
           [] c.t = "i" -> ToString(c.num)
           [] c.t = "d" -> "day-" \o ToString(c.num)

\* to_csv(filename, index=False): the header, then one line per row.
to_csv(df, file) ==
    [writes |-> file.writes + 1,
     header |-> df.columns,
     rows   |-> [i \in 1..NRows(df) |->
                    [j \in 1..Len(df.columns) |-> FormatCell(df.values[df.columns[j]][i])]]]

\* The outcome of a function that writes a file carries the file as well.
WithFile(r, file) ==
    [exc |-> r.exc, printed |-> r.printed, frame |-> r.frame, value |-> r.value,
     file |-> file]

ANALYSIS_COLUMNS == <<"Open", "High", "Low", "Close", "10_SMA">>

\* apple_stock_analysis.py; io_ok: the path can be written.
process_and_save_data(df, file, io_ok) ==
    IF MissingCols(df, ANALYSIS_COLUMNS) # {}
    THEN WithFile(Raises("KeyError: not in index", <<>>, df), file)
    ELSE LET processed_data == ResetIndex(Project(df, ANALYSIS_COLUMNS))
             p == <<"Saving data to apple_stock_data.csv...">>
         IN  IF ~io_ok THEN WithFile(Raises("OSError", p, df), file)
             ELSE WithFile(
                    Returns(Append(p, "Data successfully saved to apple_stock_data.csv!"),
                            df, NoFrame),
                    to_csv(processed_data, file))

\* apple_stock_data.py
save_to_csv(df, file, io_ok) ==
    IF ~io_ok THEN WithFile(Raises("OSError", <<>>, df), file)
    ELSE WithFile(Returns(<<"Data saved to apple_stock_data.csv">>, df, NoFrame),
                  to_csv(df, file))

DataColumns(window) == <<"Date", "Open", "High", "Low", "Close", SmaName(window)>>

\* ------------------------------------------------------------------ the chart

Line(label, y) == [label |-> label, y |-> y]

savefig(lines, file) == [writes |-> file.writes + 1, lines |-> lines]

\* apple_stock_analysis.py
visualize_data(df, file, io_ok) ==
    LET p == <<"Creating visualization...">>
    IN  IF ~HasCol(df, "Close") THEN WithFile(Raises("KeyError: Close", p, df), file)
        ELSE IF ~HasCol(df, "10_SMA") THEN WithFile(Raises("KeyError: 10_SMA", p, df), file)
        ELSE IF ~io_ok THEN WithFile(Raises("OSError", p, df), file)
        ELSE WithFile(
                Returns(Append(p, "Plot saved as aapl_chart.png!"), df, NoFrame),
                savefig(<<Line("Closing Price", df.values["Close"]),
                          Line("10-Day SMA", df.values["10_SMA"])>>, file))

\* apple_stock_data.py
plot_data(df, window, file, io_ok) ==
    IF ~HasCol(df, "Date") THEN WithFile(Raises("KeyError: Date", <<>>, df), file)
    ELSE IF ~HasCol(df, "Close") THEN WithFile(Raises("KeyError: Close", <<>>, df), file)
    ELSE IF ~HasCol(df, SmaName(window))
    THEN WithFile(Raises("KeyError: " \o SmaName(window), <<>>, df), file)
    ELSE IF ~io_ok THEN WithFile(Raises("OSError", <<>>, df), file)
    ELSE WithFile(
            Returns(<<"Plot saved as apple_chart.png">>, df, NoFrame),
            savefig(<<Line("Close Price", df.values["Close"]),
                      Line(ToString(window) \o "-Day SMA", df.values[SmaName(window)])>>,
                    file))

\* apple_stock_data.py, main: the index becomes the Date column of data itself,
\* the six columns are selected into final_data, and final_data is saved.
main_save(df, window, file, io_ok) ==
    LET reset == ResetIndex(df)
    IN  IF MissingCols(reset, DataColumns(window)) # {}
        THEN WithFile(Raises("KeyError: not in index", <<>>, reset), file)
        ELSE LET final == Project(reset, DataColumns(window))
                 r     == save_to_csv(final, file, io_ok)
             IN  [exc |-> r.exc, printed |-> r.printed, frame |-> reset,
                  value |-> final, file |-> r.file]

\* ------------------------------------------------------------------- main

\* What main does with an exception exc that leaves a step, after the step
\* printed the lines in printed: apple_stock_analysis.py catches every
\* Exception, prints it and returns; apple_stock_data.py catches nothing, so
\* the interpreter prints the traceback on standard error and exits with 1
\* (SystemExit leaves no traceback).
main_except(s, exc, printed) ==
    IF s = "analysis"
    THEN [stdout    |-> stdout \o printed \o <<"An error occurred: " \o exc>>,
          stderr    |-> stderr,
          exit_code |-> 0]
    ELSE [stdout    |-> stdout \o printed,
          stderr    |-> IF exc = "SystemExit" THEN stderr
                        ELSE Append(stderr, "Traceback (most recent call last): " \o exc),
          exit_code |-> 1]

\* The step's exception is printed and swallowed, and main goes on.
EndStep_continue(step, r, next) ==
    /\ began' = Append(began, step)
    /\ pc' = next
    /\ completed' = IF r.exc = "" THEN Append(completed, step) ELSE completed
    /\ stdout' = IF r.exc = "" THEN stdout \o r.printed
                 ELSE stdout \o r.printed \o <<"An error occurred: " \o r.exc>>
    /\ UNCHANGED <<stderr, exit_code>>

\* The step named step ended with outcome r; on success main goes on at next.
EndStep(step, r, next) ==
    /\ began' = Append(began, step)
    /\ IF r.exc = ""
       THEN /\ completed' = Append(completed, step)
            /\ stdout' = stdout \o r.printed
            /\ pc' = next
            /\ UNCHANGED <<stderr, exit_code>>
       ELSE LET h == main_except(script, r.exc, r.printed)
            IN  /\ stdout' = h.stdout
                /\ stderr' = h.stderr
                /\ exit_code' = h.exit_code
                /\ pc' = "exit"
                /\ UNCHANGED completed

NoCsv == [writes |-> 0, header |-> <<>>, rows |-> <<>>]

NoPng == [writes |-> 0, lines |-> <<>>]

\* The outcomes of yf.download: it raises, or it delivers 0 .. MaxBars bars.
Downloads ==
    {[raised |-> TRUE, bars |-> <<>>]}
    \cup {[raised |-> FALSE, bars |-> bs] : bs \in UNION {BarSeqs(n) : n \in 0..MaxBars}}

MainInit(windows) ==
    /\ script \in Scripts
    /\ pc = "main"
    /\ sma_window \in windows
    /\ data = NoFrame
    /\ final_data = NoFrame
    /\ returned = NoFrame
    /\ before = NoFrame
    /\ bars = <<>>
    /\ fetch_outcome = "none"
    /\ began = <<>>
    /\ completed = <<>>
    /\ stdout = <<>>
    /\ stderr = <<>>
    /\ exit_code = 0
    /\ csv_file = NoCsv
    /\ png_file = NoPng
    /\ calls = 0

\* The scripts as they are: the window is the one main configures.
Init == MainInit({ANALYSIS_SMA_WINDOW, DATA_SMA_WINDOW}) /\ sma_window = ConfiguredWindow(script)

\* Step 1: fetch.
Fetch ==
    /\ pc = "main"
    /\ \E dl \in Downloads :
        LET r == fetch_stock_data(script, [raised |-> dl.raised, frame |-> Download(dl.bars)])
            hello == IF script = "data" THEN <<"Fetching data for AAPL...">> ELSE <<>>
        IN  /\ bars' = dl.bars
            /\ fetch_outcome' = IF dl.raised THEN "raise"
                                ELSE IF dl.bars = <<>> THEN "empty" ELSE "ok"
            /\ data' = r.value
            /\ EndStep("fetch", [r EXCEPT !.printed = hello \o @], "fetched")
    /\ UNCHANGED <<script, sma_window, final_data, returned, before, csv_file, png_file,
                   calls>>

\* Step 2: transform.  calculate_sma works on the object it is given.
Transform ==
    /\ pc = "fetched"
    /\ LET r == calculate_sma(script, data, sma_window)
       IN  /\ before' = data
           /\ returned' = r.value
           /\ data' = IF r.exc = "" THEN r.value ELSE r.frame
           /\ EndStep("transform", r, "transformed")
    /\ calls' = calls + 1
    /\ UNCHANGED <<script, sma_window, final_data, bars, fetch_outcome, csv_file, png_file>>

\* Step 3: write the CSV file.
Write ==
    /\ pc = "transformed"
    /\ \E io_ok \in BOOLEAN :
        LET r == IF script = "analysis"
                 THEN process_and_save_data(data, csv_file, io_ok)
                 ELSE main_save(data, sma_window, csv_file, io_ok)
        IN  /\ data' = r.frame
            /\ final_data' = IF script = "data" THEN r.value ELSE final_data
            /\ csv_file' = r.file
            /\ EndStep("write", r, "written")
    /\ UNCHANGED <<script, sma_window, returned, before, bars, fetch_outcome, png_file,
                   calls>>

\* Step 4: render the chart; main returns after it.
Render ==
    /\ pc = "written"
    /\ \E io_ok \in BOOLEAN :
        LET r == IF script = "analysis"
                 THEN visualize_data(data, png_file, io_ok)
                 ELSE plot_data(final_data, sma_window, png_file, io_ok)
        IN  /\ png_file' = r.file
            /\ EndStep("render", r, "exit")
    /\ UNCHANGED <<script, sma_window, data, final_data, returned, before, bars,
                   fetch_outcome, csv_file, calls>>

Next == Fetch \/ Transform \/ Write \/ Render

Spec == Init /\ [][Next]_vars

\* The scripts with the window main configures varied.
InitCfg == MainInit(CfgWindows)

SpecCfg == InitCfg /\ [][Next]_vars

\* A direct call of calculate_sma on a frame of 0 .. MaxBars bars; the caller
\* may call it again on what it got back.
InitSma ==
    /\ script \in Scripts
    /\ pc = "call"
    /\ sma_window \in SmaWindows
    /\ \E dl \in Downloads :
        /\ ~dl.raised
        /\ bars = dl.bars
        /\ data = Download(dl.bars)
    /\ final_data = NoFrame
    /\ returned = NoFrame
    /\ before = NoFrame
    /\ fetch_outcome = "none"
    /\ began = <<>>
    /\ completed = <<>>
    /\ stdout = <<>>
    /\ stderr = <<>>
    /\ exit_code = 0
    /\ csv_file = NoCsv
    /\ png_file = NoPng
    /\ calls = 0

CallCalculateSma ==
    /\ pc \in {"call", "returned"}
    /\ calls < MaxCalls
    /\ calls' = calls + 1
    /\ LET r == calculate_sma(script, data, sma_window)
       IN  /\ before' = data
           /\ data' = r.frame
           /\ returned' = r.value
           /\ stdout' = stdout \o r.printed
           /\ pc' = IF r.exc = "" THEN "returned" ELSE "raised"
           /\ stderr' = IF r.exc = "" THEN stderr ELSE Append(stderr, r.exc)
    /\ UNCHANGED <<script, sma_window, final_data, bars, fetch_outcome, began, completed,
                   exit_code, csv_file, png_file>>

NextSma == CallCalculateSma

SpecSma == InitSma /\ [][NextSma]_vars

\* ------------------------------------------------------------- properties

Steps == <<"fetch", "transform", "write", "render">>

IsPrefix(a, b) == Len(a) <= Len(b) /\ \A i \in 1..Len(a) : a[i] = b[i]

\* The closing prices the frame was built from.
Closes == [i \in 1..Len(bars) |-> bars[i].Close]

RECURSIVE SumOf(_, _, _)
SumOf(xs, lo, hi) == IF lo > hi THEN 0 ELSE xs[lo] + SumOf(xs, lo + 1, hi)

\* The exceptions a step can raise, and the lines that report a failure.
Exceptions ==
    {"DownloadError", "ValueError: No data found for ticker AAPL", "KeyError: Close",
     "ValueError: window must be an integer 0 or greater", "KeyError: not in index",
     "KeyError: 10_SMA", "KeyError: Date", "OSError"}
    \cup {"KeyError: " \o SmaName(w) : w \in SmaWindows \cup CfgWindows}

FailureLines ==
    {"An error occurred: " \o e : e \in Exceptions}
    \cup {"Error fetching data for AAPL: DownloadError",
          "No data found for ticker AAPL in the given date range."}

FailuresOn(out) == Cardinality({i \in DOMAIN out : out[i] \in FailureLines})

\* C1: after calculate_sma(data, w) with w > 0 returned, the SMA column holds
\* the missing marker at every position i < w (counting from 1) and, at every
\* other position, exactly the arithmetic mean of the w closing prices ending
\* there: no partial window is averaged.
C1_SmaIsWindowMean ==
    (pc = "returned" /\ sma_window > 0) =>
        /\ HasCol(returned, SmaName(sma_window))
        /\ \A i \in 1..Len(bars) :
            LET c == returned.values[SmaName(sma_window)][i]
            IN  IF i < sma_window THEN c.nan
                ELSE /\ ~c.nan
                     /\ c.den > 0
                     /\ c.num * sma_window
                          = c.den * SumOf(Closes, i - sma_window + 1, i)

C1_Witness ==
    /\ pc = "returned"
    /\ sma_window = 2
    /\ Len(bars) = 3
    /\ Closes = <<1, 3, 3>>
    /\ returned.values[SmaName(2)][1].nan
    /\ returned.values[SmaName(2)][2].num = 4
    /\ returned.values[SmaName(2)][3].num = 6

\* C2: a call of calculate_sma with w > 0 on a frame of any length N >= 0,
\* N = 0 and N < w included, returns without an error, and the SMA column has
\* exactly N entries, one per input row; all of them are missing when N < w.
C2_LengthPreserved ==
    (pc \in {"returned", "raised"} /\ sma_window > 0) =>
        /\ pc = "returned"
        /\ stderr = <<>>
        /\ HasCol(returned, SmaName(sma_window))
        /\ Len(returned.values[SmaName(sma_window)]) = Len(bars)
        /\ returned.index = [i \in 1..Len(bars) |-> bars[i].Date]
        /\ Len(bars) < sma_window =>
              \A i \in 1..Len(bars) : returned.values[SmaName(sma_window)][i].nan

C2_Witness ==
    /\ pc = "returned"
    /\ sma_window = 10
    /\ Len(bars) = 0
    /\ returned.values[SmaName(10)] = <<>>

\* C3 as claimed: after calculate_sma returned, the object the caller passed
\* in has the same columns and values as before the call.
C3_InputUntouched ==
    pc = "returned" => data = before

\* C3 as amended: calculate_sma sets the '<w>_SMA' column on the very object
\* the caller passed in and returns that object; the index and every other
\* column keep their place and their values, and a call that raises leaves
\* the object as it was.
C3_OnlySmaColumnSet ==
    /\ pc = "returned" =>
        /\ returned = data
        /\ data.index = before.index
        /\ data.index_name = before.index_name
        /\ IsPrefix(before.columns, data.columns)
        /\ ColSet(data) = ColSet(before) \cup {SmaName(sma_window)}
        /\ \A c \in ColSet(before) \ {SmaName(sma_window)} :
              data.values[c] = before.values[c]
    /\ pc = "raised" => data = before

C3_Witness ==
    /\ pc = "returned"
    /\ Len(bars) = 3
    /\ ~HasCol(before, SmaName(sma_window))
    /\ HasCol(data, SmaName(sma_window))

\* C4: a call of calculate_sma with w <= 0 is rejected with an error before
\* any SMA column is added; it never returns a result.
C4_NonPositiveWindowRejected ==
    (pc \in {"returned", "raised"} /\ sma_window <= 0) =>
        /\ pc = "raised"
        /\ data = before
        /\ ~HasCol(data, SmaName(sma_window))

\* C5: a run in which all four steps succeed exits with code 0, and a run
\* whose fetch failed (the download raised or delivered nothing) exits with
\* a code other than 0, in both scripts.
C5_ExitCode ==
    pc = "exit" =>
        /\ completed = Steps => exit_code = 0
        /\ fetch_outcome \in {"raise", "empty"} => exit_code # 0

\* C6: an error raised by any step is caught at the top level of the run and
\* reported by one line on standard output (no traceback of an uncaught
\* exception), and it ends the run: no later step begins and no step runs twice.
C6_ErrorsCaughtAndReported ==
    Len(completed) < Len(began) =>
        /\ pc = "exit"
        /\ stderr = <<>>
        /\ FailuresOn(stdout) = 1
        /\ began = Append(completed, began[Len(began)])
        /\ IsPrefix(began, Steps)

\* C7: the steps run in the order fetch, transform, write, render; a step
\* begins only after the one before it completed, each runs at most once, a
\* run without a failure has run all four, and the files and the SMA column
\* exist exactly when their step completed.
C7_StepOrder ==
    /\ IsPrefix(began, Steps)
    /\ IsPrefix(completed, began)
    /\ Len(began) <= Len(completed) + 1
    /\ Len(began) > Len(completed) => pc = "exit"
    /\ pc = "main" <=> began = <<>>
    /\ pc = "fetched" <=> (began = <<"fetch">> /\ completed = began)
    /\ pc = "transformed" <=> (began = <<"fetch", "transform">> /\ completed = began)
    /\ pc = "written" <=> (began = <<"fetch", "transform", "write">> /\ completed = began)
    /\ (pc = "exit" /\ FailuresOn(stdout) = 0 /\ stderr = <<>> /\ exit_code = 0)
          => completed = Steps
    /\ calls = (IF Len(began) >= 2 THEN 1 ELSE 0)
    /\ csv_file.writes = (IF Len(completed) >= 3 THEN 1 ELSE 0)
    /\ png_file.writes = (IF Len(completed) >= 4 THEN 1 ELSE 0)

C7_Witness ==
    /\ pc = "exit"
    /\ script = "data"
    /\ completed = Steps
    /\ csv_file.writes = 1
    /\ png_file.writes = 1

\* C8: once the write step of a run has completed, the CSV file has the header
\* Date, Open, High, Low, Close, 10_SMA and one row for each fetched bar, in
\* the order fetched (dates ascending); the 10_SMA cell is empty in rows
\* 1 to 9 (in every row of a shorter file) and filled in every later row.
C8_CsvShape ==
    Len(completed) >= 3 =>
        /\ csv_file.header = <<"Date", "Open", "High", "Low", "Close", "10_SMA">>
        /\ Len(csv_file.rows) = Len(bars)
        /\ \A i \in 1..Len(bars) :
            /\ Len(csv_file.rows[i]) = 6
            /\ csv_file.rows[i][1] = "day-" \o ToString(bars[i].Date)
            /\ csv_file.rows[i][2] = ToString(bars[i].Open) \o ".0"
            /\ csv_file.rows[i][3] = ToString(bars[i].High) \o ".0"
            /\ csv_file.rows[i][4] = ToString(bars[i].Low) \o ".0"
            /\ csv_file.rows[i][5] = ToString(bars[i].Close) \o ".0"
            /\ csv_file.rows[i][6] = "" <=> i <= 9
        /\ \A i \in 1..(Len(bars) - 1) : bars[i].Date < bars[i + 1].Date

C8_Witness ==
    /\ Len(completed) >= 3
    /\ script = "analysis"
    /\ Len(bars) = 10
    /\ csv_file.rows[9][6] = ""
    /\ csv_file.rows[10][6] = "2.6"

\* C9: when the fetch fails (the download raises or delivers nothing) the run
\* is over: no transform, write or render step begins, neither file is
\* written, and exactly one line reporting the failure is printed.
C9_FetchFailureWritesNothing ==
    fetch_outcome \in {"raise", "empty"} =>
        /\ pc = "exit"
        /\ began = <<"fetch">>
        /\ completed = <<>>
        /\ csv_file = NoCsv
        /\ png_file = NoPng
        /\ calls = 0
        /\ FailuresOn(stdout) + Len(stderr) = 1

C9_Witness ==
    /\ fetch_outcome = "empty"
    /\ script = "data"
    /\ pc = "exit"
    /\ stdout[Len(stdout)] = "No data found for ticker AAPL in the given date range."

\* C10: for every window w > 0 the transform completed with, the save and the
\* plot steps look up the SMA column calculate_sma wrote, '<w>_SMA', so neither
\* step fails on a column that is absent; in both scripts.
C10_SmaColumnFound ==
    (sma_window > 0 /\ Len(completed) >= 2) =>
        /\ HasCol(data, SmaName(sma_window))
        /\ \A e \in {"KeyError: not in index", "KeyError: 10_SMA",
                     "KeyError: " \o SmaName(sma_window)} :
              /\ ("An error occurred: " \o e) \notin Range(stdout)
              /\ ("Traceback (most recent call last): " \o e) \notin Range(stderr)

=============================================================================
